---- MODULE Spec2Model ----
(***************************************************************************)
(* SyncFlix room server (src/app.py): the room registry, the per-room      *)
(* locks, the socket event handlers and the cleanup thread.                *)
(*                                                                         *)
(* Every connection runs at most one event handler at a time; handlers of  *)
(* different connections and the cleanup thread interleave between the     *)
(* statements that touch the shared dictionaries rooms and room_locks.     *)
(* Consecutive reads of one room that end in emits are taken as one step.  *)
(***************************************************************************)
EXTENDS Integers, Sequences, FiniteSets, TLC

\* ---- bounds of the model ------------------------------------------------
NumConns == 3
NumIds == 2
NumHashes == 2
MaxTime == 1
MaxEvents == 3
MaxTicks == 1
TickSeconds == 3601

\* ---- program constants --------------------------------------------------
ROOM_TTL_SECONDS == 3600
None == 0

Conns == 1..NumConns
RoomIds == 1..NumIds
Hashes == 1..NumHashes
Times == 0..MaxTime
Actions == {"play", "pause", "seek", "other"}
RelayEvents == {"offer", "answer", "ice_candidate"}

VARIABLES
    rooms,        \* dict room_id -> room record (a function on the ids present)
    room_locks,   \* dict room_id -> lock object (identified by a number)
    groups,       \* transport broadcast groups: room_id -> set of sids
    alive,        \* sid -> connected
    pc,           \* sid -> position of its running handler, "idle" if none
    h,            \* sid -> locals of its running handler
    sw,           \* the cleanup thread: position, to_delete, rid in hand
    now,          \* time.time()
    objs,         \* number of room dicts / lock objects allocated so far
    events,       \* number of handlers started so far
    applied,      \* history: room_id -> the playback state obtained by applying
                  \* the control and state_update events one at a time, in the
                  \* order in which their handlers took the room's lock
    out           \* what the handler that returned in the last step emitted

vars == <<rooms, room_locks, groups, alive, pc, h, sw, now, objs, events, applied, out>>

\* ---- dictionaries -------------------------------------------------------
EmptyDict == [k \in {} |-> None]
Put(d, k, v) == [x \in (DOMAIN d) \cup {k} |-> IF x = k THEN v ELSE d[x]]
Del(d, k) == [x \in (DOMAIN d) \ {k} |-> d[x]]

\* ---- handler locals -----------------------------------------------------
H0 == [ev |-> "none", room_id |-> None, video_hash |-> None, action |-> "none",
       has_time |-> TRUE, time_val |-> 0, paused |-> TRUE, lk |-> None,
       holding |-> FALSE, snap |-> <<>>]

NoOut == [sid |-> None, ev |-> "none", msgs |-> <<>>, raised |-> FALSE]

\* ---- messages -----------------------------------------------------------
Data0 == [text |-> "", time |-> 0, paused |-> FALSE, sender |-> None,
          room_id |-> None]

Msg(event, to, data) == [event |-> event, to |-> to, data |-> data]

\* emit(..., room=sid): a sid's own group holds the sid while it is connected
SidRoom(sid) == IF sid \in Conns /\ alive[sid] THEN {sid} ELSE {}

ErrorMsg(sid, text) == Msg("error", SidRoom(sid), [Data0 EXCEPT !.text = text])

SyncState(to, room) ==
    Msg("sync_state", to, [Data0 EXCEPT !.time = room.time, !.paused = room.paused])

\* ---- pure helpers -------------------------------------------------------
NewRoom(sid, video_hash, t, obj) ==
    [host_sid |-> sid, client_sid |-> None, video_hash |-> video_hash,
     time |-> 0, paused |-> TRUE, last_active |-> t, obj |-> obj]

\* (variant: without a host the message goes to whoever is in the client slot)
Counterpart_Fallback(host, client, sid) ==
    IF sid = host THEN client
    ELSE IF host # None THEN host
    ELSE client

\* target = client if request.sid == host else host
Counterpart(host, client, sid) == IF sid = host THEN client ELSE host

\* (variant: the TTL branch left out)
Expired_EmptyOnly(meta, t) == meta.host_sid = None /\ meta.client_sid = None

\* the sweep's test of one room
Expired(meta, t) ==
    IF meta.host_sid = None /\ meta.client_sid = None
    THEN TRUE
    ELSE t - meta.last_active > ROOM_TTL_SECONDS

\* (variant: the capacity check left out)
JoinVerdict_NoFull(room, video_hash) ==
    IF video_hash # room.video_hash THEN "Video file mismatch" ELSE "ok"

\* (variant: the hash check left out)
JoinVerdict_NoHash(room, video_hash) ==
    IF room.client_sid # None THEN "Room is full" ELSE "ok"

\* the two checks of join_room under the lock, in the code's order
JoinVerdict(room, video_hash) ==
    IF room.client_sid # None THEN "Room is full"
    ELSE IF video_hash # room.video_hash THEN "Video file mismatch"
    ELSE "ok"

\* (variant: the two branches swapped)
ControlPaused_Swapped(action, paused) ==
    IF action = "play" THEN TRUE
    ELSE IF action = "pause" THEN FALSE
    ELSE paused

\* the paused flag after a control action
ControlPaused(action, paused) ==
    IF action = "play" THEN FALSE
    ELSE IF action = "pause" THEN TRUE
    ELSE paused

\* recipients of emit(..., room=room_id)
GroupOf(g, room_id) == g[room_id]

\* the lock object l is held by a handler inside its with block
LockHeld(l) == \E c \in Conns : h[c].holding /\ h[c].lk = l

\* the event of a handler applied in one piece to a playback state: run alone,
\* a control event that carries no time finds the time of st as its default
Apply(loc, st) ==
    IF loc.ev = "control"
    THEN [time |-> IF loc.has_time THEN loc.time_val ELSE st.time,
          paused |-> ControlPaused(loc.action, st.paused)]
    ELSE IF loc.ev = "state_update"
    THEN [time |-> loc.time_val, paused |-> loc.paused]
    ELSE st

\* the history after the handler with locals loc has taken its room's lock
Record(loc) == [applied EXCEPT ![loc.room_id] = Apply(loc, @)]

\* ---- steps shared by the handlers ----------------------------------------
\* the handler of sid returns (or raises), releasing its lock if it holds one
Finish(sid, ev, msgs, raised) ==
    /\ pc' = [pc EXCEPT ![sid] = "idle"]
    /\ h' = [h EXCEPT ![sid] = H0]
    /\ out' = [sid |-> sid, ev |-> ev, msgs |-> msgs, raised |-> raised]

Goto(sid, label, locals) ==
    /\ pc' = [pc EXCEPT ![sid] = label]
    /\ h' = [h EXCEPT ![sid] = locals]
    /\ out' = NoOut

Begin(sid) ==
    /\ alive[sid]
    /\ pc[sid] = "idle"
    /\ events' = events + 1
    /\ UNCHANGED applied

FirstLocked(ev) ==
    CASE ev = "join_room" -> "j_check"
      [] ev = "control" -> "ctl_action"
      [] ev = "state_update" -> "su_time"
      [] OTHER -> "chat_emit"

\* with room_locks[room_id]: look the lock up, take it if it is free
LockLookup(sid) ==
    /\ pc[sid] = "lock"
    /\ UNCHANGED <<rooms, room_locks, groups, alive, sw, now, objs, events>>
    /\ IF h[sid].room_id \notin DOMAIN room_locks
       THEN /\ Finish(sid, h[sid].ev, <<>>, TRUE)
            /\ UNCHANGED applied
       ELSE LET l == room_locks[h[sid].room_id] IN
            IF LockHeld(l)
            THEN /\ Goto(sid, "wait", [h[sid] EXCEPT !.lk = l])
                 /\ UNCHANGED applied
            ELSE /\ Goto(sid, FirstLocked(h[sid].ev),
                         [h[sid] EXCEPT !.lk = l, !.holding = TRUE])
                 /\ applied' = Record(h[sid])

\* blocked in acquire() on the lock object found, until its holder releases
LockWait(sid) ==
    /\ pc[sid] = "wait"
    /\ ~LockHeld(h[sid].lk)
    /\ UNCHANGED <<rooms, room_locks, groups, alive, sw, now, objs, events>>
    /\ Goto(sid, FirstLocked(h[sid].ev), [h[sid] EXCEPT !.holding = TRUE])
    /\ applied' = Record(h[sid])

\* ---- create_room ---------------------------------------------------------
CreateStart(sid, video_hash, has_filename) ==
    /\ Begin(sid)
    /\ UNCHANGED <<rooms, room_locks, groups, alive, sw, now, objs>>
    /\ IF video_hash = None \/ ~has_filename
       THEN Finish(sid, "create_room",
                   <<ErrorMsg(sid, "Missing video metadata")>>, FALSE)
       ELSE \E room_id \in RoomIds \ DOMAIN rooms :
               Goto(sid, "c_insert",
                    [H0 EXCEPT !.ev = "create_room", !.room_id = room_id,
                               !.video_hash = video_hash])

CreateInsert(sid) ==
    /\ pc[sid] = "c_insert"
    /\ rooms' = Put(rooms, h[sid].room_id,
                    NewRoom(sid, h[sid].video_hash, now, objs + 1))
    /\ objs' = objs + 1
    /\ applied' = [applied EXCEPT ![h[sid].room_id] = [time |-> 0, paused |-> TRUE]]
    /\ UNCHANGED <<room_locks, groups, alive, sw, now, events>>
    /\ Goto(sid, "c_lock", [h[sid] EXCEPT !.lk = objs + 1])

CreateLock(sid) ==
    /\ pc[sid] = "c_lock"
    /\ room_locks' = Put(room_locks, h[sid].room_id, h[sid].lk)
    /\ UNCHANGED <<rooms, groups, alive, sw, now, objs, events, applied>>
    /\ Goto(sid, "c_finish", h[sid])

CreateFinish(sid) ==
    /\ pc[sid] = "c_finish"
    /\ groups' = [groups EXCEPT ![h[sid].room_id] = @ \cup {sid}]
    /\ UNCHANGED <<rooms, room_locks, alive, sw, now, objs, events, applied>>
    /\ Finish(sid, "create_room",
              <<Msg("room_created", SidRoom(sid),
                    [Data0 EXCEPT !.room_id = h[sid].room_id])>>,
              FALSE)

\* ---- join_room -----------------------------------------------------------
\* (variant: an unknown room is passed over in silence, as control does)
JoinStart_Silent(sid, room_id, video_hash) ==
    /\ Begin(sid)
    /\ UNCHANGED <<rooms, room_locks, groups, alive, sw, now, objs>>
    /\ IF room_id = None
       THEN Finish(sid, "join_room", <<ErrorMsg(sid, "Missing room id")>>, FALSE)
       ELSE IF room_id \notin DOMAIN rooms
       THEN Finish(sid, "join_room", <<>>, FALSE)
       ELSE Goto(sid, "lock",
                 [H0 EXCEPT !.ev = "join_room", !.room_id = room_id,
                            !.video_hash = video_hash])

JoinStart(sid, room_id, video_hash) ==
    /\ Begin(sid)
    /\ UNCHANGED <<rooms, room_locks, groups, alive, sw, now, objs>>
    /\ IF room_id = None
       THEN Finish(sid, "join_room", <<ErrorMsg(sid, "Missing room id")>>, FALSE)
       ELSE IF room_id \notin DOMAIN rooms
       THEN Finish(sid, "join_room", <<ErrorMsg(sid, "Room not found")>>, FALSE)
       ELSE Goto(sid, "lock",
                 [H0 EXCEPT !.ev = "join_room", !.room_id = room_id,
                            !.video_hash = video_hash])

\* (variant: acquire() and release() by hand, no release before the early
\* returns)
JoinCheck_Leak(sid) ==
    /\ pc[sid] = "j_check"
    /\ UNCHANGED <<rooms, room_locks, groups, alive, sw, now, objs, events, applied>>
    /\ IF h[sid].room_id \notin DOMAIN rooms
       THEN Finish(sid, "join_room", <<>>, TRUE)
       ELSE LET v == JoinVerdict(rooms[h[sid].room_id], h[sid].video_hash) IN
            IF v = "ok"
            THEN Goto(sid, "j_bind", h[sid])
            ELSE /\ pc' = [pc EXCEPT ![sid] = "idle"]
                 /\ h' = [h EXCEPT ![sid] = [H0 EXCEPT !.lk = h[sid].lk,
                                                       !.holding = TRUE]]
                 /\ out' = [sid |-> sid, ev |-> "join_room",
                            msgs |-> <<ErrorMsg(sid, v)>>, raised |-> FALSE]

JoinCheck(sid) ==
    /\ pc[sid] = "j_check"
    /\ UNCHANGED <<rooms, room_locks, groups, alive, sw, now, objs, events, applied>>
    /\ IF h[sid].room_id \notin DOMAIN rooms
       THEN Finish(sid, "join_room", <<>>, TRUE)
       ELSE LET v == JoinVerdict(rooms[h[sid].room_id], h[sid].video_hash) IN
            IF v = "ok"
            THEN Goto(sid, "j_bind", h[sid])
            ELSE Finish(sid, "join_room", <<ErrorMsg(sid, v)>>, FALSE)

JoinBind(sid) ==
    /\ pc[sid] = "j_bind"
    /\ UNCHANGED <<room_locks, groups, alive, sw, now, objs, events, applied>>
    /\ IF h[sid].room_id \notin DOMAIN rooms
       THEN /\ UNCHANGED rooms
            /\ Finish(sid, "join_room", <<>>, TRUE)
       ELSE /\ rooms' = [rooms EXCEPT ![h[sid].room_id].client_sid = sid]
            /\ Goto(sid, "j_touch", h[sid])

JoinTouch(sid) ==
    /\ pc[sid] = "j_touch"
    /\ UNCHANGED <<room_locks, groups, alive, sw, now, objs, events, applied>>
    /\ IF h[sid].room_id \notin DOMAIN rooms
       THEN /\ UNCHANGED rooms
            /\ Finish(sid, "join_room", <<>>, TRUE)
       ELSE /\ rooms' = [rooms EXCEPT ![h[sid].room_id].last_active = now]
            /\ Goto(sid, "j_announce", h[sid])

\* (variant: the host is told before the joiner gets the state)
JoinMessages_HostFirst(sid, room, group) ==
    (IF room.host_sid # None
     THEN <<Msg("peer_joined", SidRoom(room.host_sid),
                [Data0 EXCEPT !.text = "Peer joined"])>>
     ELSE <<>>)
    \o <<SyncState(SidRoom(sid), room)>>
    \o <<Msg("ready_for_call", group, Data0)>>

\* the messages of a join that went through, in the order they are emitted
JoinMessages(sid, room, group) ==
    <<SyncState(SidRoom(sid), room)>>
    \o (IF room.host_sid # None
        THEN <<Msg("peer_joined", SidRoom(room.host_sid),
                   [Data0 EXCEPT !.text = "Peer joined"])>>
        ELSE <<>>)
    \o <<Msg("ready_for_call", group, Data0)>>

JoinAnnounce(sid) ==
    /\ pc[sid] = "j_announce"
    /\ groups' = [groups EXCEPT ![h[sid].room_id] = @ \cup {sid}]
    /\ UNCHANGED <<rooms, room_locks, alive, sw, now, objs, events, applied>>
    /\ IF h[sid].room_id \notin DOMAIN rooms
       THEN Finish(sid, "join_room", <<>>, TRUE)
       ELSE Finish(sid, "join_room",
                   JoinMessages(sid, rooms[h[sid].room_id],
                                GroupOf(groups', h[sid].room_id)),
                   FALSE)

\* ---- control -------------------------------------------------------------
\* has_time = FALSE: the event carries no time, and the handler takes the
\* room's current time (0.0 without a room) before it takes the lock
ControlStart(sid, room_id, action, has_time, t) ==
    /\ Begin(sid)
    /\ UNCHANGED <<rooms, room_locks, groups, alive, sw, now, objs>>
    /\ LET time_val == IF has_time THEN t
                       ELSE IF room_id \in DOMAIN rooms THEN rooms[room_id].time
                       ELSE 0
       IN IF room_id = None \/ room_id \notin DOMAIN rooms
          THEN Finish(sid, "control", <<>>, FALSE)
          ELSE Goto(sid, "lock",
                    [H0 EXCEPT !.ev = "control", !.room_id = room_id,
                               !.action = action, !.has_time = has_time,
                               !.time_val = time_val])

\* a write of one field of rooms[room_id] by a handler, KeyError without the room
WriteField(sid, ev, next, room) ==
    /\ UNCHANGED <<room_locks, groups, alive, sw, now, objs, events, applied>>
    /\ IF h[sid].room_id \notin DOMAIN rooms
       THEN /\ UNCHANGED rooms
            /\ Finish(sid, ev, <<>>, TRUE)
       ELSE /\ rooms' = [rooms EXCEPT ![h[sid].room_id] = room]
            /\ Goto(sid, next, h[sid])

ControlAction(sid) ==
    /\ pc[sid] = "ctl_action"
    /\ IF h[sid].action \in {"play", "pause", "seek"}
       THEN WriteField(sid, "control", "ctl_time",
                IF h[sid].action = "seek"
                THEN [rooms[h[sid].room_id] EXCEPT !.time = h[sid].time_val]
                ELSE [rooms[h[sid].room_id] EXCEPT
                         !.paused = ControlPaused(h[sid].action, @)])
       ELSE /\ UNCHANGED <<rooms, room_locks, groups, alive, sw, now, objs, events, applied>>
            /\ Goto(sid, "ctl_time", h[sid])

ControlTime(sid) ==
    /\ pc[sid] = "ctl_time"
    /\ WriteField(sid, "control", "ctl_touch",
                  [rooms[h[sid].room_id] EXCEPT !.time = h[sid].time_val])

ControlTouch(sid) ==
    /\ pc[sid] = "ctl_touch"
    /\ WriteField(sid, "control", "route",
                  [rooms[h[sid].room_id] EXCEPT !.last_active = now])

\* ---- state_update --------------------------------------------------------
StateUpdateStart(sid, room_id, t, paused) ==
    /\ Begin(sid)
    /\ UNCHANGED <<rooms, room_locks, groups, alive, sw, now, objs>>
    /\ IF room_id = None \/ room_id \notin DOMAIN rooms
       THEN Finish(sid, "state_update", <<>>, FALSE)
       ELSE Goto(sid, "lock",
                 [H0 EXCEPT !.ev = "state_update", !.room_id = room_id,
                            !.time_val = t, !.paused = paused])

StateUpdateTime(sid) ==
    /\ pc[sid] = "su_time"
    /\ WriteField(sid, "state_update", "su_paused",
                  [rooms[h[sid].room_id] EXCEPT !.time = h[sid].time_val])

StateUpdatePaused(sid) ==
    /\ pc[sid] = "su_paused"
    /\ WriteField(sid, "state_update", "su_touch",
                  [rooms[h[sid].room_id] EXCEPT !.paused = h[sid].paused])

StateUpdateTouch(sid) ==
    /\ pc[sid] = "su_touch"
    /\ WriteField(sid, "state_update", "route",
                  [rooms[h[sid].room_id] EXCEPT !.last_active = now])

\* ---- routing to the other participant -------------------------------------
\* the message sent to target, none when the slot read is empty
Targeted(target, msg) == IF target # None THEN <<msg>> ELSE <<>>

\* control and state_update: host, client, target, emit sync_state
SyncRoute(sid) ==
    /\ pc[sid] = "route"
    /\ UNCHANGED <<rooms, room_locks, groups, alive, sw, now, objs, events, applied>>
    /\ IF h[sid].room_id \notin DOMAIN rooms
       THEN Finish(sid, h[sid].ev, <<>>, TRUE)
       ELSE LET room == rooms[h[sid].room_id]
                target == Counterpart(room.host_sid, room.client_sid, sid)
            IN Finish(sid, h[sid].ev,
                      Targeted(target, SyncState(SidRoom(target), room)), FALSE)

\* ---- offer / answer / ice_candidate ---------------------------------------
\* (variant: an unknown room is answered with an error, as join_room does)
RelayStart_NotFound(sid, ev, room_id) ==
    /\ Begin(sid)
    /\ UNCHANGED <<rooms, room_locks, groups, alive, sw, now, objs>>
    /\ IF room_id = None \/ room_id \notin DOMAIN rooms
       THEN Finish(sid, ev, <<ErrorMsg(sid, "Room not found")>>, FALSE)
       ELSE Goto(sid, "relay", [H0 EXCEPT !.ev = ev, !.room_id = room_id])

RelayStart(sid, ev, room_id) ==
    /\ Begin(sid)
    /\ UNCHANGED <<rooms, room_locks, groups, alive, sw, now, objs>>
    /\ IF room_id = None \/ room_id \notin DOMAIN rooms
       THEN Finish(sid, ev, <<>>, FALSE)
       ELSE Goto(sid, "relay", [H0 EXCEPT !.ev = ev, !.room_id = room_id])

RouteToPeer(sid) ==
    /\ pc[sid] = "relay"
    /\ UNCHANGED <<rooms, room_locks, groups, alive, sw, now, objs, events, applied>>
    /\ IF h[sid].room_id \notin DOMAIN rooms
       THEN Finish(sid, h[sid].ev, <<>>, FALSE)
       ELSE LET room == rooms[h[sid].room_id]
                target == Counterpart(room.host_sid, room.client_sid, sid)
            IN Finish(sid, h[sid].ev,
                      Targeted(target,
                               Msg(h[sid].ev, SidRoom(target),
                                   [Data0 EXCEPT !.room_id = h[sid].room_id])),
                      FALSE)

\* ---- chat_message ----------------------------------------------------------
ChatStart(sid, room_id) ==
    /\ Begin(sid)
    /\ UNCHANGED <<rooms, room_locks, groups, alive, sw, now, objs>>
    /\ IF room_id = None \/ room_id \notin DOMAIN rooms
       THEN Finish(sid, "chat_message", <<>>, FALSE)
       ELSE Goto(sid, "lock", [H0 EXCEPT !.ev = "chat_message", !.room_id = room_id])

\* (variant: emit with include_self=False)
ChatRecipients_SkipSender(g, room_id, sender) == GroupOf(g, room_id) \ {sender}

ChatRecipients(g, room_id, sender) == GroupOf(g, room_id)

ChatEmit(sid) ==
    /\ pc[sid] = "chat_emit"
    /\ UNCHANGED <<rooms, room_locks, groups, alive, sw, now, objs, events, applied>>
    /\ Finish(sid, "chat_message",
              <<Msg("chat_message", ChatRecipients(groups, h[sid].room_id, sid),
                    [Data0 EXCEPT !.sender = sid, !.text = "message"])>>,
              FALSE)

\* ---- disconnect ------------------------------------------------------------
\* (variant: last_active refreshed in every room visited)
Vacate_AlwaysTouch(meta, sid, t) ==
    [meta EXCEPT
        !.host_sid = IF @ = sid THEN None ELSE @,
        !.client_sid = IF @ = sid THEN None ELSE @,
        !.last_active = t]

\* one room dict of the snapshot: clear the slots that hold sid, refresh
Vacate(meta, sid, t) ==
    LET changed == meta.host_sid = sid \/ meta.client_sid = sid IN
    [meta EXCEPT
        !.host_sid = IF @ = sid THEN None ELSE @,
        !.client_sid = IF @ = sid THEN None ELSE @,
        !.last_active = IF changed THEN t ELSE @]

\* the transport drops the sid from every group once the handler has run
DisconnectEnd(sid) ==
    /\ alive' = [alive EXCEPT ![sid] = FALSE]
    /\ groups' = [r \in RoomIds |-> groups[r] \ {sid}]
    /\ Finish(sid, "disconnect", <<>>, FALSE)

\* list(rooms.items()): each id with the dict object it names, in insertion
\* order (the order in which the dicts were made)
RECURSIVE InOrder(_)
InOrder(S) ==
    IF S = {} THEN <<>>
    ELSE LET e == CHOOSE x \in S : \A y \in S : x[2] <= y[2]
         IN <<e>> \o InOrder(S \ {e})

Items(rs) == InOrder({<<r, rs[r].obj>> : r \in DOMAIN rs})

\* for room_id, meta in list(rooms.items()):
DisconnectStart(sid) ==
    /\ Begin(sid)
    /\ UNCHANGED <<rooms, room_locks, sw, now, objs>>
    /\ IF DOMAIN rooms = {}
       THEN DisconnectEnd(sid)
       ELSE /\ UNCHANGED <<alive, groups>>
            /\ Goto(sid, "d_visit",
                    [H0 EXCEPT !.ev = "disconnect", !.snap = Items(rooms)])

\* (variant: a room left without participants is deleted on the spot)
DisconnectVisit_Deleting(sid) ==
    /\ pc[sid] = "d_visit"
    /\ UNCHANGED <<room_locks, sw, now, objs, events, applied>>
    /\ LET e == Head(h[sid].snap)
           rest == Tail(h[sid].snap)
           live == e[1] \in DOMAIN rooms /\ rooms[e[1]].obj = e[2]
           meta == Vacate(rooms[e[1]], sid, now)
       IN /\ rooms' = IF live
                      THEN IF meta.host_sid = None /\ meta.client_sid = None
                           THEN Del(rooms, e[1])
                           ELSE [rooms EXCEPT ![e[1]] = meta]
                      ELSE rooms
          /\ IF rest = <<>>
             THEN DisconnectEnd(sid)
             ELSE /\ UNCHANGED <<alive, groups>>
                  /\ Goto(sid, "d_visit", [h[sid] EXCEPT !.snap = rest])

\* one turn of the loop: meta is the dict of the snapshot, which rooms may no
\* longer hold (then the writes reach nothing the program still reads)
DisconnectVisit(sid) ==
    /\ pc[sid] = "d_visit"
    /\ UNCHANGED <<room_locks, sw, now, objs, events, applied>>
    /\ LET e == Head(h[sid].snap)
           rest == Tail(h[sid].snap)
           live == e[1] \in DOMAIN rooms /\ rooms[e[1]].obj = e[2]
       IN /\ rooms' = IF live
                      THEN [rooms EXCEPT ![e[1]] = Vacate(@, sid, now)]
                      ELSE rooms
          /\ IF rest = <<>>
             THEN DisconnectEnd(sid)
             ELSE /\ UNCHANGED <<alive, groups>>
                  /\ Goto(sid, "d_visit", [h[sid] EXCEPT !.snap = rest])

\* ---- cleanup_worker --------------------------------------------------------
RECURSIVE Ids(_)
Ids(items) == IF items = <<>> THEN <<>> ELSE <<Head(items)[1]>> \o Ids(Tail(items))

\* to_delete after the scan of the snapshot
ToDelete(rs, t) == Ids(SelectSeq(Items(rs), LAMBDA e : Expired(rs[e[1]], t)))

SweepScan ==
    /\ sw.pc = "sleep"
    /\ ToDelete(rooms, now) # <<>>
    /\ sw' = [pc |-> "delete", to_delete |-> ToDelete(rooms, now), rid |-> None]
    /\ out' = NoOut
    /\ UNCHANGED <<rooms, room_locks, groups, alive, pc, h, now, objs, events, applied>>

\* del rooms[rid]; a KeyError skips the lock's deletion too
SweepDelRoom ==
    /\ sw.pc = "delete"
    /\ LET rid == Head(sw.to_delete)
           rest == Tail(sw.to_delete)
       IN IF rid \in DOMAIN rooms
          THEN /\ rooms' = Del(rooms, rid)
               /\ sw' = [pc |-> "dellock", to_delete |-> rest, rid |-> rid]
          ELSE /\ UNCHANGED rooms
               /\ sw' = [pc |-> IF rest = <<>> THEN "sleep" ELSE "delete",
                         to_delete |-> rest, rid |-> None]
    /\ out' = NoOut
    /\ UNCHANGED <<room_locks, groups, alive, pc, h, now, objs, events, applied>>

\* del room_locks[rid]; a KeyError is passed over
SweepDelLock ==
    /\ sw.pc = "dellock"
    /\ room_locks' = IF sw.rid \in DOMAIN room_locks
                     THEN Del(room_locks, sw.rid) ELSE room_locks
    /\ sw' = [pc |-> IF sw.to_delete = <<>> THEN "sleep" ELSE "delete",
              to_delete |-> sw.to_delete, rid |-> None]
    /\ out' = NoOut
    /\ UNCHANGED <<rooms, groups, alive, pc, h, now, objs, events, applied>>

\* ---- the clock -------------------------------------------------------------
Tick ==
    /\ now < MaxTicks * TickSeconds
    /\ now' = now + TickSeconds
    /\ out' = NoOut
    /\ UNCHANGED <<rooms, room_locks, groups, alive, pc, h, sw, objs, events, applied>>

\* ---- the system ------------------------------------------------------------
Init ==
    /\ rooms = EmptyDict
    /\ room_locks = EmptyDict
    /\ groups = [r \in RoomIds |-> {}]
    /\ alive = [c \in Conns |-> TRUE]
    /\ pc = [c \in Conns |-> "idle"]
    /\ h = [c \in Conns |-> H0]
    /\ sw = [pc |-> "sleep", to_delete |-> <<>>, rid |-> None]
    /\ now = 0
    /\ objs = 0
    /\ events = 0
    /\ applied = [r \in RoomIds |-> [time |-> 0, paused |-> TRUE]]
    /\ out = NoOut

\* the number of events received is bounded by MaxEvents
Budget == events < MaxEvents

\* every connection idle: no handler is running
Quiet == \A c \in Conns : pc[c] = "idle"

\* the cleanup thread is between two iterations
Asleep == sw.pc = "sleep"

\* ---- the statements of a running handler -----------------------------------
CreateSteps(sid) == CreateInsert(sid) \/ CreateLock(sid) \/ CreateFinish(sid)

JoinSteps(sid) == JoinCheck(sid) \/ JoinBind(sid) \/ JoinTouch(sid) \/ JoinAnnounce(sid)

ControlSteps(sid) == ControlAction(sid) \/ ControlTime(sid) \/ ControlTouch(sid)

StateUpdateSteps(sid) ==
    StateUpdateTime(sid) \/ StateUpdatePaused(sid) \/ StateUpdateTouch(sid)

\* ---- one thread at a time ---------------------------------------------------
\* An event is received when no handler runs and the cleanup thread sleeps.
OnCreateRoom ==
    \E sid \in Conns, vh \in Hashes \cup {None}, fn \in BOOLEAN :
        Budget /\ Quiet /\ Asleep /\ CreateStart(sid, vh, fn)

OnJoinRoom ==
    \E sid \in Conns, rid \in RoomIds \cup {None}, vh \in Hashes \cup {None} :
        Budget /\ Quiet /\ Asleep /\ JoinStart(sid, rid, vh)

OnControl ==
    \E sid \in Conns, rid \in RoomIds \cup {None}, a \in Actions,
       ht \in BOOLEAN, t \in Times :
        Budget /\ Quiet /\ Asleep /\ ControlStart(sid, rid, a, ht, t)

OnStateUpdate ==
    \E sid \in Conns, rid \in RoomIds \cup {None}, t \in Times, p \in BOOLEAN :
        Budget /\ Quiet /\ Asleep /\ StateUpdateStart(sid, rid, t, p)

OnRelay ==
    \E sid \in Conns, ev \in RelayEvents, rid \in RoomIds \cup {None} :
        Budget /\ Quiet /\ Asleep /\ RelayStart(sid, ev, rid)

OnChatMessage ==
    \E sid \in Conns, rid \in RoomIds \cup {None} :
        Budget /\ Quiet /\ Asleep /\ ChatStart(sid, rid)

OnDisconnect == \E sid \in Conns : Budget /\ Quiet /\ Asleep /\ DisconnectStart(sid)

SweepWake == Quiet /\ SweepScan

Clock == Quiet /\ Asleep /\ Tick

Next ==
    \/ OnCreateRoom
    \/ OnJoinRoom
    \/ OnControl
    \/ OnStateUpdate
    \/ OnRelay
    \/ OnChatMessage
    \/ OnDisconnect
    \/ \E sid \in Conns :
          \/ CreateSteps(sid)
          \/ LockLookup(sid)
          \/ JoinSteps(sid)
          \/ ControlSteps(sid)
          \/ StateUpdateSteps(sid)
          \/ SyncRoute(sid)
          \/ RouteToPeer(sid)
          \/ ChatEmit(sid)
          \/ DisconnectVisit(sid)
    \/ SweepWake
    \/ SweepDelRoom
    \/ SweepDelLock
    \/ Clock

Spec == Init /\ [][Next]_vars


\* ---- the cleanup thread beside the handlers ---------------------------------
\* create_room, join_room and disconnect handlers, one at a time, with the
\* cleanup thread free to run between any two of their statements; the thread
\* is a daemon loop that is never stopped, so its steps are taken when enabled.
Arrive(sid) ==
    \/ \E vh \in Hashes \cup {None}, fn \in BOOLEAN : Budget /\ Quiet /\ CreateStart(sid, vh, fn)
    \/ \E rid \in RoomIds \cup {None}, vh \in Hashes \cup {None} :
          Budget /\ Quiet /\ JoinStart(sid, rid, vh)
    \/ Budget /\ Quiet /\ DisconnectStart(sid)

NextSweep ==
    \/ \E sid \in Conns :
          \/ Arrive(sid)
          \/ CreateSteps(sid)
          \/ LockLookup(sid)
          \/ JoinSteps(sid)
          \/ DisconnectVisit(sid)
    \/ SweepScan
    \/ SweepDelRoom
    \/ SweepDelLock
    \/ Tick

FairSweep ==
    /\ Init
    /\ [][NextSweep]_vars
    /\ WF_vars(SweepScan)
    /\ WF_vars(SweepDelRoom)
    /\ WF_vars(SweepDelLock)


\* ---- handlers in parallel ----------------------------------------------------
\* create_room, control and state_update handlers of different connections,
\* interleaved statement by statement.
Parallel(sid) ==
    \/ \E vh \in Hashes : Budget /\ CreateStart(sid, vh, TRUE)
    \/ \E rid \in RoomIds, a \in Actions, ht \in BOOLEAN, t \in Times :
          Budget /\ ControlStart(sid, rid, a, ht, t)
    \/ \E rid \in RoomIds, t \in Times, p \in BOOLEAN :
          Budget /\ StateUpdateStart(sid, rid, t, p)

NextRace ==
    \E sid \in Conns :
        \/ Parallel(sid)
        \/ CreateSteps(sid)
        \/ LockLookup(sid)
        \/ LockWait(sid)
        \/ ControlSteps(sid)
        \/ StateUpdateSteps(sid)
        \/ SyncRoute(sid)

Race == Init /\ [][NextRace]_vars

\* the same, with create_room handlers run while no other handler runs
Exclusive(sid) ==
    \/ \E vh \in Hashes : Budget /\ Quiet /\ CreateStart(sid, vh, TRUE)
    \/ \E rid \in RoomIds, a \in Actions, ht \in BOOLEAN, t \in Times :
          /\ Budget
          /\ \A c \in Conns : h[c].ev # "create_room"
          /\ ControlStart(sid, rid, a, ht, t)
    \/ \E rid \in RoomIds, t \in Times, p \in BOOLEAN :
          /\ Budget
          /\ \A c \in Conns : h[c].ev # "create_room"
          /\ StateUpdateStart(sid, rid, t, p)

NextSync ==
    \E sid \in Conns :
        \/ Exclusive(sid)
        \/ CreateSteps(sid)
        \/ LockLookup(sid)
        \/ LockWait(sid)
        \/ ControlSteps(sid)
        \/ StateUpdateSteps(sid)
        \/ SyncRoute(sid)

RaceSync == Init /\ [][NextSync]_vars


\* ---- a room that outlives its host --------------------------------------------
\* create_room, join_room, disconnect, control and the relays, one handler at
\* a time and without the cleanup thread, for one event more than Budget
\* allows: a room is created, left by its host, joined, and used by the joiner.
Visit(sid) ==
    /\ events < MaxEvents + 1
    /\ Quiet
    /\ \/ \E vh \in Hashes : CreateStart(sid, vh, TRUE)
       \/ \E rid \in RoomIds, vh \in Hashes : JoinStart(sid, rid, vh)
       \/ DisconnectStart(sid)
       \/ \E rid \in RoomIds, a \in Actions, t \in Times :
             ControlStart(sid, rid, a, TRUE, t)
       \/ \E ev \in RelayEvents, rid \in RoomIds : RelayStart(sid, ev, rid)

NextRoles ==
    \E sid \in Conns :
        \/ Visit(sid)
        \/ CreateSteps(sid)
        \/ LockLookup(sid)
        \/ JoinSteps(sid)
        \/ ControlSteps(sid)
        \/ SyncRoute(sid)
        \/ RouteToPeer(sid)
        \/ DisconnectVisit(sid)

Roles == Init /\ [][NextRoles]_vars

\* ---- handlers meeting at a lock, beside the cleanup thread ----------------------
\* join_room and control handlers of different connections interleaved
\* statement by statement (create_room handlers run alone, rooms are created
\* with the first fingerprint, the controls are seeks to MaxTime), with the
\* cleanup thread and the clock free to run. Every thread that can take a
\* step eventually takes one.
Contend(sid) ==
    \/ Budget /\ Quiet /\ CreateStart(sid, 1, TRUE)
    \/ \E rid \in RoomIds, vh \in Hashes :
          /\ Budget
          /\ \A c \in Conns : h[c].ev # "create_room"
          /\ JoinStart(sid, rid, vh)
    \/ \E rid \in RoomIds :
          /\ Budget
          /\ \A c \in Conns : h[c].ev # "create_room"
          /\ ControlStart(sid, rid, "seek", TRUE, MaxTime)

\* the statements of the handler sid is running
Run(sid) ==
    \/ CreateSteps(sid)
    \/ LockLookup(sid)
    \/ LockWait(sid)
    \/ JoinSteps(sid)
    \/ ControlSteps(sid)
    \/ SyncRoute(sid)

NextLocks ==
    \/ \E sid \in Conns : Contend(sid) \/ Run(sid)
    \/ SweepScan
    \/ SweepDelRoom
    \/ SweepDelLock
    \/ Tick

FairLocks ==
    /\ Init
    /\ [][NextLocks]_vars
    /\ \A sid \in Conns : WF_vars(Run(sid))
    /\ WF_vars(SweepScan)
    /\ WF_vars(SweepDelRoom)
    /\ WF_vars(SweepDelLock)

\* ==== properties =============================================================
ErrorTo(sid, text) ==
    [event |-> "error", to |-> {sid}, data |-> [Data0 EXCEPT !.text = text]]

Returned(sid, ev, msgs) == [sid |-> sid, ev |-> ev, msgs |-> msgs, raised |-> FALSE]

\* the handler of sid executes its check of the room under the lock (lines
\* 104-110) in this step, and the room is there
JoinChecks(sid) ==
    /\ pc[sid] = "j_check"
    /\ pc'[sid] # "j_check"
    /\ h[sid].room_id \in DOMAIN rooms

\* C1 (Capacity): a client slot holds one connection or none, and a join_room
\* that finds the client slot of its room bound answers the requester with
\* 'Room is full' and changes no field of any room.
C1_Capacity ==
    [][/\ \A rid \in DOMAIN rooms' : rooms'[rid].client_sid \in Conns \cup {None}
       /\ \A sid \in Conns :
             (JoinChecks(sid) /\ rooms[h[sid].room_id].client_sid # None)
             => /\ out' = Returned(sid, "join_room", <<ErrorTo(sid, "Room is full")>>)
                /\ rooms' = rooms]_vars

C1_Witness ==
    /\ out.ev = "join_room"
    /\ out.msgs = <<ErrorTo(out.sid, "Room is full")>>
    /\ \E rid \in DOMAIN rooms : rooms[rid].client_sid # None

\* the hash presented differs from the room's
Mismatched(sid) ==
    /\ JoinChecks(sid)
    /\ h[sid].video_hash # rooms[h[sid].room_id].video_hash

\* C2 as stated (Fingerprint gate): every join_room on an existing room with a
\* differing fingerprint binds nothing and is answered with the mismatch error,
\* whatever the state of the room.
C2_AlwaysMismatch ==
    [][\A sid \in Conns :
          Mismatched(sid)
          => /\ rooms' = rooms
             /\ out' = Returned(sid, "join_room",
                                <<ErrorTo(sid, "Video file mismatch")>>)]_vars

\* C2 amended: a join_room with a differing fingerprint binds nothing and ends
\* there; it is answered with the mismatch error when the client slot is empty
\* and with 'Room is full' when the client slot is bound.
C2_FingerprintGate ==
    [][\A sid \in Conns :
          Mismatched(sid)
          => /\ rooms' = rooms
             /\ pc'[sid] = "idle"
             /\ out' = Returned(sid, "join_room",
                   <<ErrorTo(sid, IF rooms[h[sid].room_id].client_sid # None
                                  THEN "Room is full"
                                  ELSE "Video file mismatch")>>)]_vars

C2_Witness ==
    /\ out.ev = "join_room"
    /\ out.msgs = <<ErrorTo(out.sid, "Video file mismatch")>>
    /\ \E rid \in DOMAIN rooms : rooms[rid].client_sid = None

\* C3 (No-echo routing): the targeted message of a control, state_update,
\* offer, answer or ice_candidate event is never delivered to its sender.
C3_NoEcho ==
    out.ev \in {"control", "state_update"} \cup RelayEvents
    => \A i \in 1..Len(out.msgs) : out.sid \notin out.msgs[i].to

\* a handler holds the lock of rid with writes to the playback state to come
Writing(rid) ==
    \E sid \in Conns :
        /\ h[sid].room_id = rid
        /\ pc[sid] \in {"ctl_action", "ctl_time", "su_time", "su_paused"}

\* C4 (Convergence): whenever no control or state_update handler is in the
\* middle of its writes to a room, the room's playback state is the one
\* obtained by applying the events one at a time in the order in which they
\* took the room's lock, starting from the state the room was created with.
C4_Convergence ==
    \A rid \in DOMAIN rooms :
        ~Writing(rid)
        => /\ rooms[rid].time = applied[rid].time
           /\ rooms[rid].paused = applied[rid].paused

\* C6 (Uniqueness): the insert of create_room never lands on an id that the
\* registry already holds, so no create overwrites a live room's entry and no
\* two live rooms were given the same id.
C6_Uniqueness ==
    [][\A sid \in Conns :
          (pc[sid] = "c_insert" /\ pc'[sid] = "c_lock")
          => h[sid].room_id \notin DOMAIN rooms]_vars

\* rid is in the to_delete list the cleanup thread is working through
Condemned(rid) == \E i \in 1..Len(sw.to_delete) : sw.to_delete[i] = rid

\* C5 (Reclamation): the scan of an iteration puts every room with both slots
\* empty, and every room whose last_active is older than the TTL (bound or
\* not), on its to_delete list; an id leaves the list only with the room gone
\* from the registry; and with the cleanup thread running, every id on the
\* list is eventually absent from the registry.
C5_Reclamation ==
    /\ [][/\ (sw.pc = "sleep" /\ sw'.pc # "sleep")
             => \A rid \in DOMAIN rooms :
                   (\/ rooms[rid].host_sid = None /\ rooms[rid].client_sid = None
                    \/ now - rooms[rid].last_active > ROOM_TTL_SECONDS)
                   => \E i \in 1..Len(sw'.to_delete) : sw'.to_delete[i] = rid
          /\ \A rid \in RoomIds :
                (Condemned(rid) /\ Len(sw'.to_delete) < Len(sw.to_delete))
                => (Head(sw.to_delete) = rid => rid \notin DOMAIN rooms')]_vars
    /\ \A rid \in RoomIds : Condemned(rid) ~> (rid \notin DOMAIN rooms)

\* a room past its TTL was deleted while a participant was still connected
C5_Witness ==
    /\ sw.pc = "dellock"
    /\ sw.rid \notin DOMAIN rooms
    /\ now > ROOM_TTL_SECONDS
    /\ \E sid \in groups[sw.rid] : alive[sid] /\ pc[sid] = "idle"

\* the handler of sid runs a statement of the disconnect handler in this step
Disconnects(sid) ==
    \/ pc[sid] = "d_visit" /\ h'[sid] # h[sid]
    \/ /\ pc[sid] = "idle"
       /\ events' = events + 1
       /\ \/ pc'[sid] = "d_visit"
          \/ out'.sid = sid /\ out'.ev = "disconnect"

\* room dict b is room dict a with at most the slots that held sid emptied
Vacated(a, b, sid) ==
    /\ b.host_sid = a.host_sid \/ (a.host_sid = sid /\ b.host_sid = None)
    /\ b.client_sid = a.client_sid \/ (a.client_sid = sid /\ b.client_sid = None)
    /\ b.video_hash = a.video_hash
    /\ b.time = a.time
    /\ b.paused = a.paused
    /\ b.obj = a.obj

\* C7: an id leaves the registry only in the cleanup thread's delete; the
\* disconnect handler removes no room and only empties slots that held the
\* leaving connection; once it has returned, no room is bound to that
\* connection, so the rooms it was in are still present with the slot free.
C7_OnlySweeperRemoves ==
    [][/\ \A rid \in DOMAIN rooms :
             rid \notin DOMAIN rooms'
             => sw.pc = "delete" /\ sw'.pc = "dellock" /\ sw'.rid = rid
       /\ \A sid \in Conns :
             Disconnects(sid)
             => /\ DOMAIN rooms' = DOMAIN rooms
                /\ \A rid \in DOMAIN rooms : Vacated(rooms[rid], rooms'[rid], sid)
       /\ out'.ev = "disconnect"
          => \A rid \in DOMAIN rooms' :
                /\ rooms'[rid].host_sid # out'.sid
                /\ rooms'[rid].client_sid # out'.sid]_vars

\* a connection that was host and client has left; its room is still there,
\* empty
C7_Witness ==
    /\ out.ev = "disconnect"
    /\ \E rid \in DOMAIN rooms :
          /\ rooms[rid].host_sid = None
          /\ rooms[rid].client_sid = None
          /\ rooms[rid].last_active = now
          /\ JoinVerdict(rooms[rid], rooms[rid].video_hash) = "ok"

\* C8: a join_room that goes through emits sync_state with the room's playback
\* state to the joiner alone, then peer_joined to the host alone (left out when
\* the host slot is empty), then ready_for_call to the room's group, all after
\* the statement that binds the client slot to the joiner, which emits nothing.
C8_JoinMessages ==
    [][\A sid \in Conns :
          /\ (pc[sid] = "j_bind" /\ pc'[sid] # "j_bind"
              /\ h[sid].room_id \in DOMAIN rooms)
             => /\ rooms'[h[sid].room_id].client_sid = sid
                /\ pc'[sid] = "j_touch"
                /\ out' = NoOut
          /\ (pc[sid] = "j_touch" /\ pc'[sid] # "j_touch"
              /\ h[sid].room_id \in DOMAIN rooms)
             => pc'[sid] = "j_announce" /\ out' = NoOut
          /\ (pc[sid] = "j_announce" /\ pc'[sid] = "idle"
              /\ h[sid].room_id \in DOMAIN rooms)
             => LET room == rooms[h[sid].room_id]
                    sync == [event |-> "sync_state", to |-> {sid},
                             data |-> [Data0 EXCEPT !.time = room.time,
                                                    !.paused = room.paused]]
                    peer == [event |-> "peer_joined", to |-> {room.host_sid},
                             data |-> [Data0 EXCEPT !.text = "Peer joined"]]
                    ready == [event |-> "ready_for_call",
                              to |-> groups'[h[sid].room_id], data |-> Data0]
                IN /\ sid \in groups'[h[sid].room_id]
                   /\ out' = Returned(sid, "join_room",
                                      IF room.host_sid = None
                                      THEN <<sync, ready>>
                                      ELSE <<sync, peer, ready>>)]_vars

C8_Witness ==
    /\ out.ev = "join_room"
    /\ Len(out.msgs) = 3
    /\ out.msgs[1].event = "sync_state"
    /\ out.msgs[2].event = "peer_joined"
    /\ out.msgs[2].to # {out.sid}
    /\ out.msgs[3].event = "ready_for_call"
    /\ Cardinality(out.msgs[3].to) = 2

\* C9 (Chat echo): a chat_message naming a room of the registry reaches the
\* emit, and the one message emitted goes to exactly the connections
\* subscribed to the room's group, the sender among them if it is subscribed,
\* with the sender's sid in it.
C9_ChatEcho ==
    [][\A sid \in Conns :
          /\ (pc[sid] = "lock" /\ h[sid].ev = "chat_message" /\ pc'[sid] # "lock")
             => pc'[sid] = "chat_emit"
          /\ (pc[sid] = "chat_emit" /\ pc'[sid] = "idle")
             => out' = Returned(sid, "chat_message",
                   <<[event |-> "chat_message", to |-> groups[h[sid].room_id],
                      data |-> [Data0 EXCEPT !.sender = sid,
                                             !.text = "message"]]>>)]_vars

C9_Witness ==
    /\ out.ev = "chat_message"
    /\ Len(out.msgs) = 1
    /\ out.sid \in out.msgs[1].to
    /\ out.msgs[1].to # Conns
    /\ Cardinality(out.msgs[1].to) = 2

Dropping == {"control", "state_update", "chat_message"} \cup RelayEvents

\* C10: a control, state_update, offer, answer, ice_candidate or chat_message
\* handler goes past its first check only with a room id of the registry;
\* otherwise it returns at once, having sent nothing and changed nothing.
C10_SilentDrop ==
    [][\A sid \in Conns :
          (pc[sid] = "idle" /\ events' = events + 1)
          => /\ (pc'[sid] # "idle" /\ h'[sid].ev \in Dropping)
                => h'[sid].room_id \in DOMAIN rooms
             /\ (pc'[sid] = "idle" /\ out'.sid = sid /\ out'.ev \in Dropping)
                => /\ out' = Returned(sid, out'.ev, <<>>)
                   /\ UNCHANGED <<rooms, room_locks, groups, alive, applied>>]_vars

\* a chat_message for a room that was created and swept is dropped
C10_Witness ==
    /\ out.ev = "chat_message"
    /\ out.msgs = <<>>
    /\ ~out.raised
    /\ objs > 0
    /\ DOMAIN rooms = {}

\* this step is the first of a handler of sid for event ev
Starts(sid, ev) ==
    /\ pc[sid] = "idle"
    /\ events' = events + 1
    /\ \/ pc'[sid] # "idle" /\ h'[sid].ev = ev
       \/ out'.sid = sid /\ out'.ev = ev

\* the handler of sid returned with this one error message and nothing else
OneError(sid, ev, text) == Returned(sid, ev, <<ErrorTo(sid, text)>>)

\* C11: a create_room without fingerprint or filename, and a join_room without
\* room id, with an id the registry does not hold, on a full room or with a
\* differing fingerprint, ends with exactly one error message, sent to the
\* requester alone; it creates no room and changes no field of any room.
C11_FailureReplies ==
    [][\A sid \in Conns :
          /\ \A vh \in Hashes \cup {None}, fn \in BOOLEAN :
                (Starts(sid, "create_room") /\ CreateStart(sid, vh, fn) /\ (vh = None \/ ~fn))
                => /\ out' = OneError(sid, "create_room", "Missing video metadata")
                   /\ pc'[sid] = "idle"
                   /\ UNCHANGED <<rooms, room_locks, groups>>
          /\ \A rid \in RoomIds \cup {None}, vh \in Hashes \cup {None} :
                (/\ Starts(sid, "join_room")
                 /\ JoinStart(sid, rid, vh)
                 /\ (rid = None \/ rid \notin DOMAIN rooms))
                => /\ out' = OneError(sid, "join_room",
                                      IF rid = None THEN "Missing room id"
                                      ELSE "Room not found")
                   /\ pc'[sid] = "idle"
                   /\ UNCHANGED <<rooms, room_locks, groups>>
          /\ (h[sid].ev = "join_room" /\ pc[sid] \in {"lock", "wait"})
             => UNCHANGED <<rooms, room_locks, groups>>
          /\ (/\ JoinChecks(sid)
              /\ \/ rooms[h[sid].room_id].client_sid # None
                 \/ h[sid].video_hash # rooms[h[sid].room_id].video_hash)
             => /\ \/ out' = OneError(sid, "join_room", "Room is full")
                   \/ out' = OneError(sid, "join_room", "Video file mismatch")
                /\ pc'[sid] = "idle"
                /\ UNCHANGED <<rooms, room_locks, groups>>]_vars

\* a create_room without its metadata was refused while a room exists
C11_Witness ==
    /\ out = OneError(out.sid, "create_room", "Missing video metadata")
    /\ \E rid \in DOMAIN rooms : rooms[rid].host_sid # None

\* the handler of c is inside the with block of the lock that room_locks has
\* for rid, and takes this step
ActsLocked(c, rid) ==
    /\ rid \in DOMAIN room_locks
    /\ h[c].holding
    /\ h[c].lk = room_locks[rid]
    /\ <<pc[c], h[c]>> # <<pc'[c], h'[c]>>

\* C12 (Locking discipline): every step that writes a field of a room of the
\* registry (host, client, playback state, last_active) or deletes the room is
\* taken by a thread that holds the room's lock.
C12_LockingDiscipline ==
    [][\A rid \in DOMAIN rooms :
          (rid \notin DOMAIN rooms' \/ rooms'[rid] # rooms[rid])
          => \E c \in Conns : ActsLocked(c, rid)]_vars

\* C13 (Room/lock consistency): in every state the registry and the lock table
\* hold the same ids, and no handler that found its room id in the registry
\* ends in a KeyError for the room's lock or the room's entry.
C13_RoomLockConsistency ==
    /\ DOMAIN rooms = DOMAIN room_locks
    /\ ~out.raised

\* C14: a room leaves the registry only in a state in which both of its slots
\* are empty or its last_active is older than the TTL; so a join_room that
\* went through after the scan keeps its room.
C14_DeleteOnlyGarbage ==
    [][\A rid \in DOMAIN rooms :
          rid \notin DOMAIN rooms'
          => \/ rooms[rid].host_sid = None /\ rooms[rid].client_sid = None
             \/ now - rooms[rid].last_active > ROOM_TTL_SECONDS]_vars

\* the sync_state message carrying the playback state of room, sent to c alone
SyncTo(c, room) ==
    [event |-> "sync_state", to |-> {c},
     data |-> [Data0 EXCEPT !.time = room.time, !.paused = room.paused]]

\* C15: a control event that is not dropped names a room of the registry and
\* goes on to the room's lock with its reported time (the room's time when it
\* reports none); under the lock, play sets paused to
\* false, pause sets it to true, seek and any other action leave it as it is;
\* the time is overwritten with the reported time and last_active with the
\* current time, nothing else changes, whoever is bound; the state is then
\* sent to the counterpart alone, and to nobody when that slot is empty.
C15_ControlEffect ==
    [][\A sid \in Conns :
          LET rid == h[sid].room_id
              r == rooms[rid]
              q == rooms'[rid]
              c == IF sid = r.host_sid THEN r.client_sid ELSE r.host_sid
          IN
          /\ (pc[sid] = "idle" /\ pc'[sid] # "idle" /\ h'[sid].ev = "control")
             => /\ pc'[sid] = "lock"
                /\ h'[sid].room_id \in DOMAIN rooms
                /\ h'[sid].has_time
                   \/ h'[sid].time_val = rooms[h'[sid].room_id].time
                /\ rooms' = rooms
          /\ (h[sid].ev = "control" /\ pc[sid] = "lock" /\ pc'[sid] # "lock")
             => pc'[sid] = "ctl_action" /\ rooms' = rooms
          /\ (pc[sid] = "ctl_action" /\ pc'[sid] # "ctl_action")
             => /\ pc'[sid] = "ctl_time"
                /\ q.paused = CASE h[sid].action = "play" -> FALSE
                                 [] h[sid].action = "pause" -> TRUE
                                 [] OTHER -> r.paused
                /\ q.time \in {r.time, h[sid].time_val}
                /\ q = [r EXCEPT !.paused = q.paused, !.time = q.time]
                /\ \A x \in DOMAIN rooms \ {rid} : rooms'[x] = rooms[x]
          /\ (pc[sid] = "ctl_time" /\ pc'[sid] # "ctl_time")
             => /\ pc'[sid] = "ctl_touch"
                /\ rooms' = [rooms EXCEPT ![rid].time = h[sid].time_val]
          /\ (pc[sid] = "ctl_touch" /\ pc'[sid] # "ctl_touch")
             => /\ pc'[sid] = "route"
                /\ rooms' = [rooms EXCEPT ![rid].last_active = now]
          /\ (h[sid].ev = "control" /\ pc[sid] = "route" /\ pc'[sid] # "route")
             => /\ rooms' = rooms
                /\ out' = Returned(sid, "control",
                                   IF c = None THEN <<>> ELSE <<SyncTo(c, r)>>)]_vars

\* the host of a room without client has sent play with time 1: the state is
\* updated and nothing is sent
C15_Witness ==
    /\ out = Returned(out.sid, "control", <<>>)
    /\ \E rid \in DOMAIN rooms :
          /\ rooms[rid].host_sid = out.sid
          /\ rooms[rid].client_sid = None
          /\ ~rooms[rid].paused
          /\ rooms[rid].time = 1

\* sid is bound to neither slot of the room rid of the registry
Outsider(sid, rid) ==
    /\ rid \in DOMAIN rooms
    /\ rooms[rid].host_sid # sid
    /\ rooms[rid].client_sid # sid

\* C16: no step of a control or state_update handler whose sender is bound to
\* neither slot of the room it names changes the room's playback state, and
\* the handler returns without a sync_state for the room's host or client.
C16_MembersOnly ==
    [][\A sid \in Conns :
          (/\ h[sid].ev \in {"control", "state_update"}
           /\ Outsider(sid, h[sid].room_id)
           /\ pc'[sid] # pc[sid])
          => /\ h[sid].room_id \in DOMAIN rooms'
             /\ rooms'[h[sid].room_id].time = rooms[h[sid].room_id].time
             /\ rooms'[h[sid].room_id].paused = rooms[h[sid].room_id].paused
             /\ pc'[sid] = "idle" => out'.msgs = <<>>]_vars

\* C17: a step of the disconnect handler of sid changes only the room it
\* visits, and only if sid is bound there: the slots equal to sid become
\* empty and last_active becomes the current time, every other field and
\* every other room stays as it is; the handler emits nothing, and when it
\* has returned no slot of any room holds sid.
C17_DisconnectFrame ==
    [][\A sid \in Conns :
          Disconnects(sid)
          => /\ DOMAIN rooms' = DOMAIN rooms
             /\ room_locks' = room_locks
             /\ \A rid \in DOMAIN rooms :
                   LET a == rooms[rid]
                       visited == pc[sid] = "d_visit" /\ Head(h[sid].snap)[1] = rid
                       bound == a.host_sid = sid \/ a.client_sid = sid
                   IN rooms'[rid] =
                        IF visited /\ bound
                        THEN [a EXCEPT !.host_sid = IF @ = sid THEN None ELSE @,
                                       !.client_sid = IF @ = sid THEN None ELSE @,
                                       !.last_active = now]
                        ELSE a
             /\ IF pc'[sid] = "idle"
                THEN /\ out' = Returned(sid, "disconnect", <<>>)
                     /\ \A rid \in DOMAIN rooms' :
                           /\ rooms'[rid].host_sid # sid
                           /\ rooms'[rid].client_sid # sid
                ELSE out' = NoOut]_vars

\* a host has left: its room is vacated and refreshed, the room of another
\* host still carries its older last_active
C17_Witness ==
    /\ out = Returned(out.sid, "disconnect", <<>>)
    /\ \E r1, r2 \in DOMAIN rooms :
          /\ rooms[r1].host_sid = None
          /\ rooms[r1].last_active = now
          /\ rooms[r2].host_sid \in Conns \ {out.sid}
          /\ rooms[r2].last_active < now

\* C18: the fingerprint of a room is the one its create_room was given and no
\* step changes it; a client slot is bound only by the join_room handler of
\* the connection bound, and the fingerprint that handler presented is the
\* room's.
C18_FingerprintFixed ==
    [][/\ \A sid \in Conns :
             (pc[sid] = "c_insert" /\ pc'[sid] # "c_insert")
             => /\ h[sid].room_id \in DOMAIN rooms'
                /\ rooms'[h[sid].room_id].video_hash = h[sid].video_hash
                /\ h[sid].video_hash \in Hashes
       /\ \A rid \in DOMAIN rooms \cap DOMAIN rooms' :
             /\ rooms'[rid].video_hash = rooms[rid].video_hash
             /\ (rooms'[rid].client_sid \notin {None, rooms[rid].client_sid})
                => LET sid == rooms'[rid].client_sid
                   IN /\ pc[sid] = "j_bind"
                      /\ h[sid].room_id = rid
                      /\ h[sid].video_hash = rooms[rid].video_hash
       /\ \A rid \in DOMAIN rooms' \ DOMAIN rooms :
             rooms'[rid].client_sid = None]_vars

\* a connection other than the host is bound as client of a room created
\* with the second fingerprint
C18_Witness ==
    \E rid \in DOMAIN rooms :
        /\ rooms[rid].client_sid \in Conns \ {rooms[rid].host_sid}
        /\ rooms[rid].host_sid \in Conns
        /\ rooms[rid].video_hash = NumHashes

\* C20 (Roles are fixed): create_room puts its requester in the host slot;
\* afterwards the host slot of a room keeps its value or becomes empty, so it
\* holds the creator or nobody and is never bound again; and a control or
\* relay event of the client of a room whose host slot is empty is sent to
\* nobody.
C20_RolesFixed ==
    [][/\ \A sid \in Conns :
             (pc[sid] = "c_insert" /\ pc'[sid] # "c_insert")
             => /\ h[sid].room_id \in DOMAIN rooms'
                /\ rooms'[h[sid].room_id].host_sid = sid
       /\ \A rid \in DOMAIN rooms \cap DOMAIN rooms' :
             rooms'[rid].host_sid \in {rooms[rid].host_sid, None}
       /\ \A sid \in Conns :
             (/\ h[sid].ev \in {"control"} \cup RelayEvents
              /\ pc[sid] \in {"route", "relay"}
              /\ pc'[sid] = "idle"
              /\ h[sid].room_id \in DOMAIN rooms
              /\ rooms[h[sid].room_id].host_sid = None
              /\ rooms[h[sid].room_id].client_sid = sid)
             => out' = Returned(sid, h[sid].ev, <<>>)]_vars

\* the client of a room whose host has left has sent a control with time 1:
\* the room took it and nobody was sent anything
C20_Witness ==
    /\ out = Returned(out.sid, "control", <<>>)
    /\ \E rid \in DOMAIN rooms :
          /\ rooms[rid].host_sid = None
          /\ rooms[rid].client_sid = out.sid
          /\ rooms[rid].time = 1
          /\ \E c \in Conns : ~alive[c]

\* the positions of a handler inside a with block
InsideWith ==
    {"j_check", "j_bind", "j_touch", "j_announce", "ctl_action", "ctl_time",
     "ctl_touch", "su_time", "su_paused", "su_touch", "route", "chat_emit"}

\* C19 (No deadlock, no lock leak): a handler holds a lock exactly while it is
\* inside its with block, one lock at a time, and a handler that has returned
\* (the early returns of join_room included) or raised holds none; with every
\* thread scheduled, every handler that has started returns, and every
\* iteration of the cleanup thread comes to its end, whatever the handlers
\* hold.
C19_NoLockLeak ==
    /\ [][\A sid \in Conns :
             /\ h'[sid].holding <=> pc'[sid] \in InsideWith
             /\ (h[sid].holding /\ h'[sid].holding) => h'[sid].lk = h[sid].lk
             /\ \A c \in Conns \ {sid} :
                   (h'[sid].holding /\ h'[c].holding) => h'[sid].lk # h'[c].lk]_vars
    /\ \A sid \in Conns : (pc[sid] # "idle") ~> (pc[sid] = "idle")
    /\ (sw.pc # "sleep") ~> (sw.pc = "sleep")

\* a join_room has left through its mismatch return while another handler
\* waits at a lock that is now free
C19_Witness ==
    /\ out = OneError(out.sid, "join_room", "Video file mismatch")
    /\ \E a \in Conns : pc[a] = "wait" /\ ~LockHeld(h[a].lk)

====
